---------------------------- MODULE Spec2Model ----------------------------
(***************************************************************************)
(* Model of download_dataset.py: a one-shot script that reads its          *)
(* configuration from the environment, lists the versions of a Roboflow    *)
(* project, generates one when there is none, picks the version to         *)
(* download, downloads it (retrying once at the latest version) and prints *)
(* a verification summary.                                                 *)
(*                                                                         *)
(* Python strings are sequences of one-character strings, so that          *)
(* str.lower() and int(str) are computed character by character.  The      *)
(* format and the destination are never inspected by the script: each is a *)
(* one-symbol sequence holding the whole text.                             *)
(***************************************************************************)
EXTENDS Integers, Sequences, FiniteSets, TLC

VARIABLES
    pc,                     \* the statement the script is about to run
    exit_code,              \* the process's exit status; -1 while it runs
    error,                  \* the uncaught exception that ended the run, "" if none
    printed,                \* the messages printed so far (tags)
    calls,                  \* the remote calls made so far, in order
    missing,                \* the dependencies whose import fails
    environ,                \* os.environ: name -> [set, s]
    dotenv,                 \* the .env file: name -> [set, s]
    api_key,
    VERSION,
    FORMAT,
    DEST,
    AUTO_GENERATE_VERSION,
    OVERWRITE_EXISTING,
    available_versions,
    generated,              \* the version number generate_version returned
    target_version,
    dataset,                \* what download() returned: [has, exists]
    version_objects,        \* _extract_version_numbers: its argument
    version_numbers         \* _extract_version_numbers: its result [err, val]

vars == <<pc, exit_code, error, printed, calls, missing, environ, dotenv,
          api_key, VERSION, FORMAT, DEST, AUTO_GENERATE_VERSION,
          OVERWRITE_EXISTING, available_versions, generated, target_version,
          dataset, version_objects, version_numbers>>

config == <<api_key, VERSION, FORMAT, DEST, AUTO_GENERATE_VERSION,
            OVERWRITE_EXISTING>>
frame == <<generated, version_objects, version_numbers>>
inputs == <<missing, environ, dotenv>>

---------------------------------------------------------------------------
(* Bounds *)

\* the longest version listing of the stand-alone parsing runs
MaxEntries == 2
\* the longest version listing the remote project returns in a whole run
MaxListing == 2
\* the largest version number an entry or a generated version carries
MaxVersion == 3
\* the most spaces put around a toggle's value
MaxPad == 1

---------------------------------------------------------------------------
(* Python strings and values *)

\* an environment variable: unset, or set to a string
Unset == [set |-> FALSE, s |-> <<>>]
Str(s) == [set |-> TRUE, s |-> s]

Digits == {"0", "1", "2", "3", "4", "5", "6", "7", "8", "9"}

DigitVal(c) ==
    CASE c = "0" -> 0 [] c = "1" -> 1 [] c = "2" -> 2 [] c = "3" -> 3
      [] c = "4" -> 4 [] c = "5" -> 5 [] c = "6" -> 6 [] c = "7" -> 7
      [] c = "8" -> 8 [] c = "9" -> 9 [] OTHER -> 0

\* str.lower(), one character
LowerChar(c) ==
    CASE c = "A" -> "a" [] c = "E" -> "e" [] c = "F" -> "f" [] c = "L" -> "l"
      [] c = "N" -> "n" [] c = "O" -> "o" [] c = "S" -> "s" [] c = "Y" -> "y"
      [] c = "T" -> "t" [] c = "R" -> "r" [] c = "U" -> "u"
      [] OTHER -> c

\* str.upper(), one character (used to build inputs only)
UpperChar(c) ==
    CASE c = "a" -> "A" [] c = "e" -> "E" [] c = "f" -> "F" [] c = "l" -> "L"
      [] c = "n" -> "N" [] c = "o" -> "O" [] c = "s" -> "S" [] c = "y" -> "Y"
      [] c = "t" -> "T" [] c = "r" -> "R" [] c = "u" -> "U"
      [] OTHER -> c

lower(s) == [i \in 1..Len(s) |-> LowerChar(s[i])]

RECURSIVE LStrip(_)
LStrip(s) == IF s # <<>> /\ Head(s) = " " THEN LStrip(Tail(s)) ELSE s

RECURSIVE RStrip(_)
RStrip(s) ==
    IF s # <<>> /\ s[Len(s)] = " " THEN RStrip(SubSeq(s, 1, Len(s) - 1)) ELSE s

strip(s) == RStrip(LStrip(s))

RECURSIVE DigitsValue(_, _)
DigitsValue(s, acc) ==
    IF s = <<>> THEN acc
    ELSE IF Head(s) = "_" THEN DigitsValue(Tail(s), acc)
    ELSE DigitsValue(Tail(s), 10 * acc + DigitVal(Head(s)))

\* the digit part of an integer literal: digits, single underscores between them
IsDigitPart(b) ==
    /\ b # <<>>
    /\ b[1] \in Digits
    /\ b[Len(b)] \in Digits
    /\ \A i \in 1..Len(b) : b[i] \in Digits \cup {"_"}
    /\ \A i \in 1..(Len(b) - 1) : ~(b[i] = "_" /\ b[i + 1] = "_")

\* int(s) of a string, base 10: [ok, val]
IntOfStr(s) ==
    LET t == strip(s)
        signed == t # <<>> /\ t[1] \in {"+", "-"}
        b == IF signed THEN Tail(t) ELSE t
        neg == signed /\ t[1] = "-"
    IN  IF IsDigitPart(b)
        THEN [ok |-> TRUE,
              val |-> IF neg THEN 0 - DigitsValue(b, 0) ELSE DigitsValue(b, 0)]
        ELSE [ok |-> FALSE, val |-> 0]

\* a Python value: t is its type, n its number (den its denominator for a
\* float), s its characters
PyInt(n) == [t |-> "int", n |-> n, den |-> 1, s |-> <<>>]
PyStr(s) == [t |-> "str", n |-> 0, den |-> 1, s |-> s]
PyFloat(num, den) == [t |-> "float", n |-> num, den |-> den, s |-> <<>>]
PyNone == [t |-> "None", n |-> 0, den |-> 1, s |-> <<>>]
PyInf == [t |-> "inf", n |-> 0, den |-> 1, s |-> <<>>]
PyNaN == [t |-> "nan", n |-> 0, den |-> 1, s |-> <<>>]
PyList == [t |-> "list", n |-> 0, den |-> 1, s |-> <<>>]

\* int(value): the integer, or the exception int() raises
int(v) ==
    CASE v.t = "int" -> [exc |-> "", val |-> v.n]
      [] v.t = "str" ->
            IF IntOfStr(v.s).ok
            THEN [exc |-> "", val |-> IntOfStr(v.s).val]
            ELSE [exc |-> "ValueError", val |-> 0]
      [] v.t = "float" ->
            [exc |-> "",
             val |-> IF v.n >= 0 THEN v.n \div v.den
                     ELSE 0 - ((0 - v.n) \div v.den)]
      [] v.t = "nan" -> [exc |-> "ValueError", val |-> 0]
      [] v.t = "inf" -> [exc |-> "OverflowError", val |-> 0]
      [] OTHER -> [exc |-> "TypeError", val |-> 0]

---------------------------------------------------------------------------
(* _extract_version_numbers *)

Min(S) == CHOOSE x \in S : \A y \in S : x <= y

\* sorted(set(...)) of a set of integers
RECURSIVE sorted(_)
sorted(S) == IF S = {} THEN <<>> ELSE <<Min(S)>> \o sorted(S \ {Min(S)})

Range(s) == {s[i] : i \in 1..Len(s)}

\* a version entry: an object with a version attribute, or a dict
AttrEntry(v) == [shape |-> "attr", version |-> v]
DictEntry(v) == [shape |-> "dict", version |-> v]

\* lines 60-62: getattr(item, "version", None), then item.get("version")
EntryValue(item) ==
    LET value == IF item.shape = "attr" THEN item.version ELSE PyNone
    IN  IF value = PyNone /\ item.shape = "dict" THEN item.version ELSE value

\* lines 59-66: the loop over the entries; an exception that is neither a
\* TypeError nor a ValueError leaves the function
RECURSIVE ExtractLoop(_, _)
ExtractLoop(items, acc) ==
    IF items = <<>> THEN [err |-> "", val |-> acc]
    ELSE LET r == int(EntryValue(Head(items)))
         IN  IF r.exc = "" THEN ExtractLoop(Tail(items), Append(acc, r.val))
             ELSE IF r.exc \in {"TypeError", "ValueError"}
                  THEN ExtractLoop(Tail(items), acc)
                  ELSE [err |-> r.exc, val |-> <<>>]

\* version_objects is [none, items]: None, or a list
_extract_version_numbers(objs) ==
    LET items == IF objs.none \/ objs.items = <<>> THEN <<>> ELSE objs.items
        r == ExtractLoop(items, <<>>)
    IN  IF r.err = "" THEN [err |-> "", val |-> sorted(Range(r.val))]
        ELSE r


---------------------------------------------------------------------------
(* Inputs *)

Names == {"ROBOFLOW_API_KEY", "ROBOFLOW_VERSION", "ROBOFLOW_FORMAT",
          "ROBOFLOW_DEST", "ROBOFLOW_AUTO_GENERATE_VERSION",
          "ROBOFLOW_OVERWRITE"}

Dependencies == {"roboflow", "python-dotenv"}

EnvKeyValues == {Unset, Str(<<>>), Str(<<"k">>)}

\* values of ROBOFLOW_VERSION: integer literals and malformed ones
EnvVersionValues ==
    {Unset, Str(<<"1">>), Str(<<"2">>), Str(<<"3">>), Str(<<" ", "2">>),
     Str(<<"-", "1">>), Str(<<>>), Str(<<"x">>), Str(<<"2", ".", "0">>),
     Str(<<"1", "x">>)}

EnvFormatValues == {Unset, Str(<<"coco">>)}
EnvDestValues == {Unset, Str(<<"./data">>)}

\* values of a toggle in a whole run
EnvToggleValues ==
    {Unset, Str(<<"0">>), Str(<<"N", "o">>), Str(<<"y", "e", "s">>)}

\* values of a toggle in the configuration runs: each word in every mix of
\* upper and lower case, with up to MaxPad spaces on either side
ToggleWords ==
    {<<>>, <<"0">>, <<"1">>, <<"0", "0">>, <<"n">>, <<"n", "o">>,
     <<"o", "f", "f">>, <<"y", "e", "s">>, <<"t", "r", "u", "e">>,
     <<"f", "a", "l", "s", "e">>}

Recase(w, mask) == [i \in 1..Len(w) |-> IF mask[i] THEN UpperChar(w[i]) ELSE w[i]]
Spaces(n) == [i \in 1..n |-> " "]

ToggleValues ==
    {Unset} \cup
    {Str(Spaces(l) \o Recase(w[1], w[2]) \o Spaces(r)) :
        w \in UNION {{<<x, m>> : m \in [1..Len(x) -> BOOLEAN]} : x \in ToggleWords},
        l \in 0..MaxPad, r \in 0..MaxPad}

Environs(versions, toggles) ==
    {[n \in Names |->
        CASE n = "ROBOFLOW_API_KEY" -> k
          [] n = "ROBOFLOW_VERSION" -> v
          [] n = "ROBOFLOW_FORMAT" -> f
          [] n = "ROBOFLOW_DEST" -> d
          [] n = "ROBOFLOW_AUTO_GENERATE_VERSION" -> a
          [] OTHER -> o] :
        k \in EnvKeyValues, v \in versions, f \in EnvFormatValues,
        d \in EnvDestValues, a \in toggles, o \in EnvToggleValues}

\* the .env file: it may hold the API key
DotenvFiles ==
    {[n \in Names |-> IF n = "ROBOFLOW_API_KEY" THEN k ELSE Unset] :
        k \in {Unset, Str(<<"k">>)}}

\* the values an entry's version identifier takes
EntryValues ==
    {PyInt(n) : n \in 1..MaxVersion} \cup
    {PyStr(<<"3">>), PyStr(<<" ", "2">>), PyStr(<<"b", "a", "d">>), PyStr(<<>>),
     PyFloat(5, 2), PyNone, PyInf, PyNaN, PyList}

Entries == {AttrEntry(v) : v \in EntryValues} \cup {DictEntry(v) : v \in EntryValues}

\* the entries of the listings the remote project returns in a whole run
ListedEntries ==
    {AttrEntry(PyInt(n)) : n \in 1..MaxVersion} \cup
    {DictEntry(PyStr(<<"2">>)), DictEntry(PyStr(<<"b", "a", "d">>)),
     AttrEntry(PyInf)}

SeqsUpTo(S, n) == UNION {[1..k -> S] : k \in 0..n}

NoList == [none |-> TRUE, items |-> <<>>]
List(items) == [none |-> FALSE, items |-> items]

Listings(S, n) == {NoList} \cup {List(l) : l \in SeqsUpTo(S, n)}

\* what project.generate_version returns
GeneratedValues ==
    {PyInt(n) : n \in 1..MaxVersion} \cup {PyStr(<<"2">>), PyNone}

---------------------------------------------------------------------------
(* The script *)

Call(op) ==
    [op |-> op, version |-> 0, format |-> <<>>, location |-> <<>>,
     overwrite |-> FALSE]

\* project.version(v).download(fmt, location=dest, overwrite=ow)
DownloadCall(v, fmt, dest, ow) ==
    [op |-> "download", version |-> v, format |-> fmt, location |-> dest,
     overwrite |-> ow]

NoDataset == [has |-> FALSE, exists |-> FALSE]
NoFrame == [err |-> "", val |-> <<>>]

InitRun(envs) ==
    /\ pc = "check_dependencies"
    /\ exit_code = -1
    /\ error = ""
    /\ printed = {}
    /\ calls = <<>>
    /\ missing \in SUBSET Dependencies
    /\ environ \in envs
    /\ dotenv \in DotenvFiles
    /\ api_key = Unset
    /\ VERSION = 0
    /\ FORMAT = <<>>
    /\ DEST = <<>>
    /\ AUTO_GENERATE_VERSION = FALSE
    /\ OVERWRITE_EXISTING = FALSE
    /\ available_versions = <<>>
    /\ generated = 0
    /\ target_version = 0
    /\ dataset = NoDataset
    /\ version_objects = NoList
    /\ version_numbers = NoFrame

Init == InitRun(Environs(EnvVersionValues, EnvToggleValues))

\* a faulty variant of Exit1: sys.exit(0)
Exit1_zero(msgs) ==
    /\ pc' = "exit"
    /\ exit_code' = 0
    /\ printed' = printed \cup msgs
    /\ UNCHANGED error

\* sys.exit(1) after printing msgs
Exit1(msgs) ==
    /\ pc' = "exit"
    /\ exit_code' = 1
    /\ printed' = printed \cup msgs
    /\ UNCHANGED error

\* an exception nothing catches: the interpreter prints it and exits with 1
Raise(exc, msgs) ==
    /\ pc' = "exit"
    /\ exit_code' = 1
    /\ error' = exc
    /\ printed' = printed \cup msgs

\* lines 13-27
CheckDependencies ==
    /\ pc = "check_dependencies"
    /\ IF missing # {}
       THEN Exit1({"missing_dependencies"})
       ELSE /\ pc' = "load_dotenv"
            /\ UNCHANGED <<exit_code, error, printed>>
    /\ UNCHANGED <<calls, inputs, config, available_versions, target_version,
                   dataset, frame>>

\* line 29: load_dotenv() sets the variables of .env that the environment lacks
load_dotenv(env, file) == [n \in Names |-> IF env[n].set THEN env[n] ELSE file[n]]

LoadDotenv ==
    /\ pc = "load_dotenv"
    /\ environ' = load_dotenv(environ, dotenv)
    /\ pc' = "check_api_key"
    /\ UNCHANGED <<exit_code, error, printed, calls, missing, dotenv, config,
                   available_versions, target_version, dataset, frame>>

\* a faulty variant of ApiKeyMissing: "api_key is None" in place of "not api_key"
ApiKeyMissing_none(key) == ~key.set

\* line 32: not api_key
ApiKeyMissing(key) == ~key.set \/ key.s = <<>>

\* lines 31-34
CheckApiKey ==
    /\ pc = "check_api_key"
    /\ api_key' = environ["ROBOFLOW_API_KEY"]
    /\ IF ApiKeyMissing(environ["ROBOFLOW_API_KEY"])
       THEN Exit1({"no_api_key"})
       ELSE /\ pc' = "resolve_configuration"
            /\ UNCHANGED <<exit_code, error, printed>>
    /\ UNCHANGED <<calls, inputs, VERSION, FORMAT, DEST, AUTO_GENERATE_VERSION,
                   OVERWRITE_EXISTING, available_versions, target_version,
                   dataset, frame>>

\* os.getenv(name, default)
getenv(env, name, default) == IF env[name].set THEN env[name].s ELSE default

\* a faulty variant of ParseVersion: a malformed value falls back to the default 1
ParseVersion_default(env) ==
    LET r == int(PyStr(getenv(env, "ROBOFLOW_VERSION", <<"1">>)))
    IN  IF r.exc = "" THEN r ELSE [exc |-> "", val |-> 1]

\* line 38: int(os.getenv("ROBOFLOW_VERSION", "1"))
ParseVersion(env) == int(PyStr(getenv(env, "ROBOFLOW_VERSION", <<"1">>)))

FalsyTokens == {<<"0">>, <<"f", "a", "l", "s", "e">>, <<"n", "o">>}

\* a faulty variant of Toggle: the value is compared without .lower()
Toggle_exact(env, name) == getenv(env, name, <<"1">>) \notin FalsyTokens

\* lines 41-50: os.getenv(name, "1").lower() not in {"0", "false", "no"}
Toggle(env, name) == lower(getenv(env, name, <<"1">>)) \notin FalsyTokens

\* lines 36-50
ResolveConfiguration ==
    /\ pc = "resolve_configuration"
    /\ IF ParseVersion(environ).exc # ""
       THEN /\ Raise(ParseVersion(environ).exc, {})
            /\ UNCHANGED <<VERSION, FORMAT, DEST, AUTO_GENERATE_VERSION,
                           OVERWRITE_EXISTING>>
       ELSE /\ VERSION' = ParseVersion(environ).val
            /\ FORMAT' = getenv(environ, "ROBOFLOW_FORMAT", <<"yolov8">>)
            /\ DEST' = getenv(environ, "ROBOFLOW_DEST", <<"./dataset">>)
            /\ AUTO_GENERATE_VERSION' =
                   Toggle(environ, "ROBOFLOW_AUTO_GENERATE_VERSION")
            /\ OVERWRITE_EXISTING' = Toggle(environ, "ROBOFLOW_OVERWRITE")
            /\ pc' = "connect"
            /\ UNCHANGED <<exit_code, error, printed>>
    /\ UNCHANGED <<calls, inputs, api_key, available_versions, target_version,
                   dataset, frame>>

\* lines 52-53: Roboflow(api_key=api_key)
Connect ==
    /\ pc = "connect"
    /\ calls' = Append(calls, Call("authenticate"))
    /\ \/ /\ pc' = "get_project"
          /\ printed' = printed \cup {"connecting"}
          /\ UNCHANGED <<exit_code, error>>
       \/ Raise("RemoteError", {"connecting"})
    /\ UNCHANGED <<inputs, config, available_versions, target_version, dataset,
                   frame>>

\* line 55: rf.workspace(WORKSPACE).project(PROJECT)
GetProject ==
    /\ pc = "get_project"
    /\ calls' = Append(calls, Call("project"))
    /\ \/ /\ pc' = "list_versions"
          /\ UNCHANGED <<exit_code, error, printed>>
       \/ Raise("RemoteError", {})
    /\ UNCHANGED <<inputs, config, available_versions, target_version, dataset,
                   frame>>

\* lines 70-71: project.versions(), then _extract_version_numbers(versions)
ListVersions ==
    /\ pc = "list_versions"
    /\ calls' = Append(calls, Call("versions"))
    /\ \/ \E versions \in Listings(ListedEntries, MaxListing) :
            LET r == _extract_version_numbers(versions)
            IN  IF r.err = ""
                THEN /\ available_versions' = r.val
                     /\ pc' = "ensure_version"
                     /\ UNCHANGED <<exit_code, error, printed>>
                ELSE /\ Raise(r.err, {})
                     /\ UNCHANGED available_versions
       \/ /\ Raise("RemoteError", {})
          /\ UNCHANGED available_versions
    /\ UNCHANGED <<inputs, config, target_version, dataset, frame>>

\* a faulty variant of GeneratedVersions: the set holds the number after the generated one
GeneratedVersions_next(g) == <<g + 1>>

\* line 88: available_versions = [generated]
GeneratedVersions(g) == <<g>>

\* lines 73-103
EnsureVersionExists ==
    /\ pc = "ensure_version"
    /\ IF available_versions # <<>>
       THEN /\ pc' = "select_version"
            /\ printed' = printed \cup {"available"}
            /\ UNCHANGED <<exit_code, error, calls, available_versions,
                           generated>>
       ELSE IF AUTO_GENERATE_VERSION
       THEN /\ calls' = Append(calls, Call("generate_version"))
            /\ \/ \E g \in GeneratedValues :
                    IF int(g).exc = ""
                    THEN /\ generated' = int(g).val
                         /\ available_versions' = GeneratedVersions(int(g).val)
                         /\ pc' = "select_version"
                         /\ printed' = printed \cup {"generating", "generated"}
                         /\ UNCHANGED <<exit_code, error>>
                    ELSE /\ Exit1({"generating", "generate_failed"})
                         /\ UNCHANGED <<available_versions, generated>>
               \/ /\ Exit1({"generating", "generate_failed"})
                  /\ UNCHANGED <<available_versions, generated>>
       ELSE /\ Exit1({"no_versions"})
            /\ UNCHANGED <<calls, available_versions, generated>>
    /\ UNCHANGED <<inputs, config, target_version, dataset, version_objects,
                   version_numbers>>

\* available_versions[-1]
latest(avail) == avail[Len(avail)]

\* a faulty variant of selectVersion: the fallback takes the first element
selectVersion_first(requested, avail) ==
    IF requested \notin Range(avail) THEN avail[1] ELSE requested

\* a faulty variant of selectVersion: no fallback
selectVersion_requested(requested, avail) == requested

\* lines 105-112: the version of the first download request
selectVersion(requested, avail) ==
    IF requested \notin Range(avail) THEN latest(avail) ELSE requested

SelectVersion ==
    /\ pc = "select_version"
    /\ target_version' = selectVersion(VERSION, available_versions)
    /\ printed' = printed \cup
           (IF VERSION \notin Range(available_versions) THEN {"fallback"} ELSE {})
    /\ pc' = "download"
    /\ UNCHANGED <<exit_code, error, calls, inputs, config, available_versions,
                   dataset, frame>>

\* a faulty variant of ShouldRetry: the target is compared with the first element
ShouldRetry_first(target, avail) == target # avail[1]

\* line 121: target_version != available_versions[-1]
ShouldRetry(target, avail) == target # latest(avail)

\* lines 114-121 and 127-128: the first download request and its failure
Download ==
    /\ pc = "download"
    /\ calls' = Append(calls, DownloadCall(target_version, FORMAT, DEST,
                                           OVERWRITE_EXISTING))
    /\ \/ \E exists \in BOOLEAN :
            /\ dataset' = [has |-> TRUE, exists |-> exists]
            /\ pc' = "report"
            /\ printed' = printed \cup {"downloading"}
            /\ UNCHANGED <<exit_code, error>>
       \/ /\ IF ShouldRetry(target_version, available_versions)
             THEN /\ pc' = "retry"
                  /\ printed' = printed \cup
                         {"downloading", "download_failed", "retrying"}
                  /\ UNCHANGED <<exit_code, error>>
             ELSE Raise("DownloadError", {"downloading", "download_failed"})
          /\ UNCHANGED dataset
    /\ UNCHANGED <<inputs, config, available_versions, target_version, frame>>

\* lines 122-126: the request the except clause makes
RetryCall(avail, fmt, dest, ow) == DownloadCall(latest(avail), fmt, dest, ow)

Retry ==
    /\ pc = "retry"
    /\ calls' = Append(calls, RetryCall(available_versions, FORMAT, DEST,
                                        OVERWRITE_EXISTING))
    /\ \/ \E exists \in BOOLEAN :
            /\ dataset' = [has |-> TRUE, exists |-> exists]
            /\ pc' = "report"
            /\ UNCHANGED <<exit_code, error, printed>>
       \/ /\ Raise("DownloadError", {})
          /\ UNCHANGED dataset
    /\ UNCHANGED <<inputs, config, available_versions, target_version, frame>>

\* lines 130-132
Report ==
    /\ pc = "report"
    /\ printed' = printed \cup {"complete"}
    /\ pc' = "verify"
    /\ UNCHANGED <<exit_code, error, calls, inputs, config, available_versions,
                   target_version, dataset, frame>>

\* a faulty variant of ShouldSummarise: the summary is printed unconditionally
ShouldSummarise_always(ds) == TRUE

\* line 136: root.exists()
ShouldSummarise(ds) == ds.exists

\* lines 134-147, and the end of the script
Verify ==
    /\ pc = "verify"
    /\ printed' = printed \cup
           (IF ShouldSummarise(dataset) THEN {"summary"} ELSE {})
    /\ pc' = "exit"
    /\ exit_code' = 0
    /\ UNCHANGED <<error, calls, inputs, config, available_versions,
                   target_version, dataset, frame>>

Next ==
    \/ CheckDependencies
    \/ LoadDotenv
    \/ CheckApiKey
    \/ ResolveConfiguration
    \/ Connect
    \/ GetProject
    \/ ListVersions
    \/ EnsureVersionExists
    \/ SelectVersion
    \/ Download
    \/ Retry
    \/ Report
    \/ Verify

Spec == Init /\ [][Next]_vars

---------------------------------------------------------------------------
(* The run up to the end of the configuration, over a wide set of values   *)
(* of ROBOFLOW_AUTO_GENERATE_VERSION                                       *)

InitConfig == InitRun(Environs({Unset, Str(<<"x">>)}, ToggleValues))

NextConfig ==
    \/ CheckDependencies
    \/ LoadDotenv
    \/ CheckApiKey
    \/ ResolveConfiguration

SpecConfig == InitConfig /\ [][NextConfig]_vars

---------------------------------------------------------------------------
(* A call of _extract_version_numbers on any listing                       *)

InitExtract ==
    /\ pc = "extract"
    /\ exit_code = -1
    /\ error = ""
    /\ printed = {}
    /\ calls = <<>>
    /\ missing = {}
    /\ environ = [n \in Names |-> Unset]
    /\ dotenv = [n \in Names |-> Unset]
    /\ api_key = Unset
    /\ VERSION = 0
    /\ FORMAT = <<>>
    /\ DEST = <<>>
    /\ AUTO_GENERATE_VERSION = FALSE
    /\ OVERWRITE_EXISTING = FALSE
    /\ available_versions = <<>>
    /\ generated = 0
    /\ target_version = 0
    /\ dataset = NoDataset
    /\ version_objects \in Listings(Entries, MaxEntries)
    /\ version_numbers = NoFrame

\* lines 57-67, one call
Extract ==
    /\ pc = "extract"
    /\ version_numbers' = _extract_version_numbers(version_objects)
    /\ pc' = "extracted"
    /\ UNCHANGED <<exit_code, error, printed, calls, inputs, config,
                   available_versions, generated, target_version, dataset,
                   version_objects>>

NextExtract == Extract

SpecExtract == InitExtract /\ [][NextExtract]_vars

---------------------------------------------------------------------------
(* Properties *)

\* the download requests made so far, in order
Downloads == SelectSeq(calls, LAMBDA c : c.op = "download")

Count(cs, op) == Cardinality({i \in 1..Len(cs) : cs[i].op = op})

Max(S) == CHOOSE x \in S : \A y \in S : y <= x

V == Range(available_versions)

\* the API key as os.getenv sees it once .env is loaded
EffectiveKey == load_dotenv(environ, dotenv)["ROBOFLOW_API_KEY"]
KeyAbsent == ~EffectiveKey.set \/ EffectiveKey.s = <<>>

BeforeConnect ==
    {"check_dependencies", "load_dotenv", "check_api_key",
     "resolve_configuration", "exit"}

\* C1: the version of the first download request is the requested version
\* when it is a member of the available versions, and their maximum when it
\* is not.
FirstRequestIsRequestedOrMax ==
    Downloads # <<>> =>
        Downloads[1].version = (IF VERSION \in V THEN VERSION ELSE Max(V))

FallbackToMaxReached ==
    /\ Downloads # <<>>
    /\ VERSION \notin V
    /\ Len(available_versions) >= 2
    /\ Downloads[1].version = Max(V)

\* C2: every download request, the first and the retry, is for a member of
\* the available versions, which are then not empty.
RequestedVersionIsAvailable ==
    \A i \in 1..Len(Downloads) : V # {} /\ Downloads[i].version \in V

GeneratedVersionRequested ==
    /\ Len(Downloads) = 1
    /\ "generated" \in printed
    /\ VERSION # generated
    /\ Downloads[1].version = generated

\* C3: at most two download requests are made; a second one is made exactly
\* when the first failed at a version other than the maximum, and it is the
\* first request with the version replaced by the maximum; a failure at the
\* maximum, and a failure of the retry, end the run with the download error.
RetryOnceAtLatest ==
    /\ Len(Downloads) <= 2
    /\ Len(Downloads) = 2 =>
          /\ "download_failed" \in printed
          /\ Downloads[1].version # Max(V)
          /\ Downloads[2] = [Downloads[1] EXCEPT !.version = Max(V)]
    /\ ("download_failed" \in printed /\ Downloads[1].version # Max(V)) =>
          \/ Len(Downloads) = 1 /\ pc = "retry"
          \/ Len(Downloads) = 2
    /\ ("download_failed" \in printed /\ Downloads[1].version = Max(V)) =>
          /\ Len(Downloads) = 1
          /\ pc = "exit" /\ exit_code # 0 /\ error = "DownloadError"
    /\ (Len(Downloads) = 2 /\ ~dataset.has) =>
          pc = "exit" /\ exit_code # 0 /\ error = "DownloadError"

RetrySucceeded ==
    /\ Len(Downloads) = 2
    /\ dataset.has
    /\ pc = "exit"

\* C4: when the API key is absent or empty, no remote call is ever made, the
\* run never goes past the key check, and it ends with a non-zero status.
NoKeyNoRemoteCall ==
    KeyAbsent =>
        /\ calls = <<>>
        /\ pc \in BeforeConnect
        /\ pc = "exit" => exit_code # 0

EmptyKeyRejected ==
    /\ environ["ROBOFLOW_API_KEY"] = Str(<<>>)
    /\ missing = {}
    /\ pc = "exit"
    /\ "no_api_key" \in printed

\* C5: the step that handles the parsed listing calls generate_version once
\* when the listing is empty and auto-generate is enabled, and the available
\* versions then become the singleton of the generated number unless the run
\* ends non-zero; with auto-generate disabled it ends the run non-zero without
\* the call; with a listing that is not empty it makes no call and leaves the
\* versions as they are; no other step calls generate_version.
EnsureVersionStep ==
    /\ (pc = "ensure_version" /\ pc' # pc) =>
          IF available_versions # <<>>
          THEN /\ Count(calls', "generate_version") = 0
               /\ available_versions' = available_versions
               /\ pc' # "exit"
          ELSE IF AUTO_GENERATE_VERSION
          THEN /\ Count(calls', "generate_version") = 1
               /\ pc' # "exit" => available_versions' = <<generated'>>
               /\ pc' = "exit" => exit_code' # 0
          ELSE /\ Count(calls', "generate_version") = 0
               /\ pc' = "exit" /\ exit_code' # 0
    /\ pc # "ensure_version" =>
          Count(calls', "generate_version") = Count(calls, "generate_version")

GenerateOnEmptyListing == [][EnsureVersionStep]_vars

GeneratedSingleton ==
    /\ "generated" \in printed
    /\ Count(calls, "generate_version") = 1
    /\ available_versions = <<generated>>
    /\ pc = "select_version"

\* the identifier of a version entry, whichever its shape
Identifier(e) == e.version

StrictlyAscending(s) == \A i \in 1..(Len(s) - 1) : s[i] < s[i + 1]

Coerced(objs) ==
    {int(Identifier(objs.items[i])).val :
        i \in {j \in 1..Len(objs.items) : int(Identifier(objs.items[j])).exc = ""}}

\* C6: _extract_version_numbers never ends with an error, and returns the
\* integers of the entries whose identifier coerces, without duplicates, in
\* strictly ascending order.
ExtractSkipsMalformed ==
    pc = "extracted" =>
        /\ version_numbers.err = ""
        /\ StrictlyAscending(version_numbers.val)
        /\ Range(version_numbers.val) = Coerced(version_objects)

\* a terminal failure the script handles: a missing dependency, a missing
\* key, no version with auto-generate disabled, a failed generation, a
\* download failure with no retry left
TerminalFailure ==
    \/ missing # {}
    \/ KeyAbsent
    \/ "no_versions" \in printed
    \/ "generate_failed" \in printed
    \/ error = "DownloadError"

\* C7: a run ends with status 0 only after a download request returned, and
\* every terminal failure ends it non-zero with "Download complete" and the
\* summary unprinted.
ExitStatus ==
    pc = "exit" =>
        /\ exit_code = 0 => dataset.has
        /\ TerminalFailure =>
              /\ exit_code # 0
              /\ "complete" \notin printed
              /\ "summary" \notin printed

FailedAtLatest ==
    /\ pc = "exit"
    /\ error = "DownloadError"
    /\ Len(Downloads) = 1
    /\ exit_code = 1

\* the tokens the claim names
ClosedTokens == {<<"0">>, <<"f", "a", "l", "s", "e">>, <<"n", "o">>}

EqualsIgnoringCase(s, tok) ==
    /\ Len(s) = Len(tok)
    /\ \A i \in 1..Len(tok) : s[i] = tok[i] \/ s[i] = UpperChar(tok[i])

IsToken(value) == value.set /\ value.s \in ClosedTokens
IsTokenIgnoringCase(value) ==
    value.set /\ \E tok \in ClosedTokens : EqualsIgnoringCase(value.s, tok)

\* C8 as stated: a toggle is false exactly when its value is one of "0",
\* "false", "no".
ToggleFalseIffToken ==
    pc = "connect" =>
        /\ ~AUTO_GENERATE_VERSION <=>
               IsToken(environ["ROBOFLOW_AUTO_GENERATE_VERSION"])
        /\ ~OVERWRITE_EXISTING <=> IsToken(environ["ROBOFLOW_OVERWRITE"])

\* C8 as amended: a toggle is false exactly when its value is one of "0",
\* "false", "no" in any mix of upper and lower case; any other value, and an
\* unset variable, make it true.
ToggleFalseIffTokenIgnoringCase ==
    pc = "connect" =>
        /\ ~AUTO_GENERATE_VERSION <=>
               IsTokenIgnoringCase(environ["ROBOFLOW_AUTO_GENERATE_VERSION"])
        /\ ~OVERWRITE_EXISTING <=>
               IsTokenIgnoringCase(environ["ROBOFLOW_OVERWRITE"])

UpperCaseTokenIsFalse ==
    /\ pc = "connect"
    /\ ~AUTO_GENERATE_VERSION
    /\ environ["ROBOFLOW_AUTO_GENERATE_VERSION"].s \notin ClosedTokens

Malformed(value) == value.set /\ ~IntOfStr(value.s).ok

\* C9: with the key present and ROBOFLOW_VERSION set to a value that is no
\* integer literal, no remote call is made, the configuration is never
\* completed, and the run ends with a non-zero status.
MalformedVersionFailsFast ==
    (~KeyAbsent /\ Malformed(environ["ROBOFLOW_VERSION"])) =>
        /\ calls = <<>>
        /\ pc \in BeforeConnect
        /\ pc = "exit" => exit_code # 0

MalformedVersionRaised ==
    /\ pc = "exit"
    /\ ~KeyAbsent
    /\ missing = {}
    /\ Malformed(environ["ROBOFLOW_VERSION"])
    /\ error = "ValueError"

\* C10: the summary is printed only for a location that exists, and a run
\* whose download returned ends with status 0 and no error, with the summary
\* printed exactly when the location exists.
SummaryIffLocationExists ==
    /\ "summary" \in printed => dataset.has /\ dataset.exists
    /\ (pc = "exit" /\ dataset.has) =>
          /\ exit_code = 0
          /\ error = ""
          /\ "summary" \in printed <=> dataset.exists

MissingLocationSkipped ==
    /\ pc = "exit"
    /\ dataset.has
    /\ ~dataset.exists
    /\ exit_code = 0
    /\ "summary" \notin printed

=============================================================================
